---- MODULE Spec2Model ----
(***************************************************************************)
(* OpenContextPath: extraction of the file path around a cursor position.  *)
(*                                                                         *)
(* A text is a sequence of characters (one-character strings); offsets are *)
(* Python's, counted from 0, while sequence indices are counted from 1.    *)
(***************************************************************************)
EXTENDS Integers, Sequences, FiniteSets, TLC

VARIABLES
    platform,         \* sublime.platform(): "linux" or "windows"
    files,            \* the files that exist (the filesystem)
    text,             \* the text handed to the running call
    cur,              \* the cursor offset handed to the running call
    dirs,             \* the directory tuple handed to the running call
    pc,               \* position of the running call
    before,           \* extract_path: the parts starting at or before cur
    after,            \* extract_path: the parts starting after cur
    i,                \* extract_path: the index in before the scan has come to
    best,             \* extract_path: path, begin and end, and the paths found
    result,           \* what the last call returned
    cache,            \* functools.lru_cache: its entries, the oldest first
    called,           \* the calls of extract_path made so far
    settings,         \* the patterns of the view and the global ones
    paths             \* what the last find_paths_at returned

vars == <<platform, files, text, cur, dirs, pc, before, after, i, best, result,
          cache, called, settings, paths>>

(***************************************************************************)
(* Bounds of the model.                                                    *)
(***************************************************************************)
MaxLen == 3           \* longest text handed to extract_path
MaxTokLen == 4        \* longest text handed to the tokenizer alone
MaxPathLen == 3       \* longest path handed to search_path alone
MaxLineLen == 4       \* longest line of the views gone through behind the cache
MaxPatLen == 5        \* longest line of the view whose paths are matched for patterns

(***************************************************************************)
(* Characters.  \w is a letter, a digit or the underscore; [A-Z] under     *)
(* re.IGNORECASE is a letter.                                              *)
(***************************************************************************)
Letters == {"a"}
Digits == {"4"}
WordChars == Letters \cup Digits \cup {"_"}
Platforms == {"linux", "windows"}

RECURSIVE Texts(_, _)
Texts(alphabet, n) ==
    IF n = 0 THEN {<<>>}
    ELSE LET shorter == Texts(alphabet, n - 1)
         IN  shorter \cup {Append(t, c) : t \in {s \in shorter : Len(s) = n - 1},
                                            c \in alphabet}

RECURSIVE Concat(_)
Concat(parts) ==
    IF parts = <<>> THEN <<>> ELSE Head(parts) \o Concat(Tail(parts))

\* Op of the value v: a local name for a value that is worked out once
With(v, Op(_)) == CHOOSE r \in {Op(x) : x \in {v}} : TRUE

(***************************************************************************)
(* The regular expressions that split a text into parts.  Each operator    *)
(* gives the length of the match that starts at index p, 0 when the        *)
(* expression does not match there.                                        *)
(***************************************************************************)
RECURSIVE Run(_, _, _)
Run(t, p, set) ==
    IF p <= Len(t) /\ t[p] \in set THEN 1 + Run(t, p + 1, set) ELSE 0

\* (\w+|\.\.?) followed by the greedy run of separators
WordOrDots(t, p, seps) ==
    LET w == IF t[p] \in WordChars THEN Run(t, p, WordChars)
             ELSE IF t[p] = "."
                  THEN (IF p + 1 <= Len(t) /\ t[p + 1] = "." THEN 2 ELSE 1)
                  ELSE 0
    IN  IF w = 0 THEN 0 ELSE w + Run(t, p + w, seps)

\* a slip: the expression without its last alternative
NonWordDropped(t, p) == 0

\* \W
NonWord(t, p) == IF t[p] \notin WordChars THEN 1 ELSE 0

\* [A-Z]:[/\\]+
Drive(t, p) ==
    IF /\ t[p] \in Letters
       /\ p + 1 <= Len(t)
       /\ t[p + 1] = ":"
       /\ Run(t, p + 2, {"/", "\\"}) >= 1
    THEN 2 + Run(t, p + 2, {"/", "\\"})
    ELSE 0

file_parts_unix(t, p) ==
    IF WordOrDots(t, p, {"/"}) > 0 THEN WordOrDots(t, p, {"/"})
    ELSE NonWord(t, p)

file_parts_win(t, p) ==
    IF Drive(t, p) > 0 THEN Drive(t, p)
    ELSE IF WordOrDots(t, p, {"/", "\\"}) > 0 THEN WordOrDots(t, p, {"/", "\\"})
    ELSE NonWord(t, p)

file_parts(pl, t, p) ==
    IF pl # "windows" THEN file_parts_unix(t, p) ELSE file_parts_win(t, p)

\* re.finditer: the matches from left to right; a character at which the
\* expression does not match is passed over
RECURSIVE finditer(_, _, _)
finditer(pl, t, p) ==
    IF p > Len(t) THEN <<>>
    ELSE With(file_parts(pl, t, p), LAMBDA n :
             IF n = 0 THEN finditer(pl, t, p + 1)
             ELSE <<[start |-> p - 1, part |-> SubSeq(t, p, p + n - 1)]>>
                  \o finditer(pl, t, p + n))

Parts(matches) == [k \in 1..Len(matches) |-> matches[k].part]

\* the split of extract_path: the parts that start at or before the cursor...
SplitBefore(pl, t, c) ==
    Parts(SelectSeq(finditer(pl, t, 1), LAMBDA m : m.start <= c))

\* ... and the parts that start after it
SplitAfter(pl, t, c) ==
    Parts(SelectSeq(finditer(pl, t, 1), LAMBDA m : ~(m.start <= c)))

(***************************************************************************)
(* os.path: posixpath off Windows, ntpath on Windows.                      *)
(***************************************************************************)
StartsWith(p, prefix) ==
    Len(p) >= Len(prefix) /\ SubSeq(p, 1, Len(prefix)) = prefix

EndsWith(p, suffix) ==
    Len(p) >= Len(suffix) /\ SubSeq(p, Len(p) - Len(suffix) + 1, Len(p)) = suffix

Drop(p, n) == SubSeq(p, n + 1, Len(p))

\* the index of the first character of p, at or after index k, that is in
\* set; Len(p) + 1 when there is none
RECURSIVE Find(_, _, _)
Find(p, k, set) ==
    IF k > Len(p) \/ p[k] \in set THEN k ELSE Find(p, k + 1, set)

\* str.split on the characters of set
RECURSIVE split(_, _)
split(p, set) ==
    LET at == Find(p, 1, set)
    IN  IF at > Len(p) THEN <<p>>
        ELSE <<SubSeq(p, 1, at - 1)>> \o split(Drop(p, at), set)

\* sep.join(comps)
RECURSIVE joined(_, _)
joined(comps, sep) ==
    IF comps = <<>> THEN <<>>
    ELSE IF Len(comps) = 1 THEN comps[1]
    ELSE comps[1] \o <<sep>> \o joined(Tail(comps), sep)

NtSeps == {"\\", "/"}

\* ntpath.splitdrive: the length of the drive or UNC share that starts p
nt_drive(p) ==
    IF Len(p) < 2 THEN 0
    ELSE IF p[1] \in NtSeps /\ p[2] \in NtSeps /\ ~(Len(p) >= 3 /\ p[3] \in NtSeps)
    THEN LET index == Find(p, 3, NtSeps)
             index2 == Find(p, index + 1, NtSeps)
         IN  IF index > Len(p) THEN 0
             ELSE IF index2 = index + 1 /\ index2 <= Len(p) THEN 0
             ELSE index2 - 1
    ELSE IF p[2] = ":" THEN 2
    ELSE 0

posix_isabs(p) == StartsWith(p, <<"/">>)

nt_isabs(p) ==
    LET s == Drop(p, nt_drive(p)) IN Len(s) > 0 /\ s[1] \in NtSeps

isabs(pl, p) == IF pl = "windows" THEN nt_isabs(p) ELSE posix_isabs(p)

posix_join(a, b) ==
    IF StartsWith(b, <<"/">>) THEN b
    ELSE IF a = <<>> \/ EndsWith(a, <<"/">>) THEN a \o b
    ELSE a \o <<"/">> \o b

nt_join(a, b) ==
    LET result_drive == SubSeq(a, 1, nt_drive(a))
        result_path == Drop(a, nt_drive(a))
        p_drive == SubSeq(b, 1, nt_drive(b))
        p_path == Drop(b, nt_drive(b))
        glue(drive, path) ==
            IF /\ path # <<>>
               /\ path[1] \notin NtSeps
               /\ drive # <<>>
               /\ drive[Len(drive)] # ":"
            THEN drive \o <<"\\">> \o path
            ELSE drive \o path
    IN  IF p_path # <<>> /\ p_path[1] \in NtSeps
        THEN glue(IF p_drive # <<>> \/ result_drive = <<>> THEN p_drive
                  ELSE result_drive, p_path)
        ELSE IF p_drive # <<>> /\ p_drive # result_drive
        THEN \* another drive (the model's drives are written in one case)
             glue(p_drive, p_path)
        ELSE glue(result_drive,
                  (IF result_path # <<>> /\ result_path[Len(result_path)] \notin NtSeps
                   THEN result_path \o <<"\\">> ELSE result_path) \o p_path)

join(pl, a, b) == IF pl = "windows" THEN nt_join(a, b) ELSE posix_join(a, b)

\* the loop of normpath over the components: "" and "." are dropped, ".."
\* takes back the component before it, and is dropped at the root
RECURSIVE collapse(_, _, _)
collapse(comps, new_comps, rooted) ==
    IF comps = <<>> THEN new_comps
    ELSE LET comp == Head(comps)
             n == Len(new_comps)
         IN  IF comp = <<>> \/ comp = <<".">>
             THEN collapse(Tail(comps), new_comps, rooted)
             ELSE IF \/ comp # <<".", ".">>
                     \/ (~rooted /\ n = 0)
                     \/ (n > 0 /\ new_comps[n] = <<".", ".">>)
             THEN collapse(Tail(comps), Append(new_comps, comp), rooted)
             ELSE IF n > 0
             THEN collapse(Tail(comps), SubSeq(new_comps, 1, n - 1), rooted)
             ELSE collapse(Tail(comps), new_comps, rooted)

posix_normpath(p) ==
    IF p = <<>> THEN <<".">>
    ELSE LET initial_slashes ==
                 IF ~StartsWith(p, <<"/">>) THEN 0
                 ELSE IF StartsWith(p, <<"/", "/">>) /\ ~StartsWith(p, <<"/", "/", "/">>)
                 THEN 2 ELSE 1
             body == joined(collapse(split(p, {"/"}), <<>>, initial_slashes > 0), "/")
             path == [k \in 1..initial_slashes |-> "/"] \o body
         IN  IF path = <<>> THEN <<".">> ELSE path

nt_normpath(p) ==
    IF StartsWith(p, <<"\\", "\\", ".", "\\">>) \/ StartsWith(p, <<"\\", "\\", "?", "\\">>)
    THEN p
    ELSE LET q == [k \in 1..Len(p) |-> IF p[k] = "/" THEN "\\" ELSE p[k]]
             drive == SubSeq(q, 1, nt_drive(q))
             rest == Drop(q, nt_drive(q))
             rooted == StartsWith(rest, <<"\\">>)
             prefix == IF rooted THEN Append(drive, "\\") ELSE drive
             comps == collapse(split(rest, {"\\"}), <<>>, rooted)
         IN  IF prefix = <<>> /\ comps = <<>> THEN <<".">>
             ELSE prefix \o joined(comps, "\\")

normpath(pl, p) == IF pl = "windows" THEN nt_normpath(p) ELSE posix_normpath(p)

Sep(pl) == IF pl = "windows" THEN "\\" ELSE "/"

\* the paths that exist with the files fs: every file, every directory above
\* it, and each of these with the separator after it
RECURSIVE Prefixes(_, _, _)
Prefixes(p, k, sep) ==
    IF k > Len(p) THEN {}
    ELSE (IF k = Len(p) \/ p[k] = sep \/ p[k + 1] = sep THEN {SubSeq(p, 1, k)} ELSE {})
         \cup Prefixes(p, k + 1, sep)

Paths(pl, fs) == UNION {Prefixes(f, 1, Sep(pl)) : f \in fs}

\* os.path.exists
exists(pl, fs, p) == normpath(pl, p) \in Paths(pl, fs)

(***************************************************************************)
(* search_path.  None is Python's None; a path is never empty, so that a   *)
(* value is true in Python's sense when it is neither None nor "".         *)
(***************************************************************************)
None == <<"None">>

Truthy(v) == v # None /\ v # <<>>

\* a slip: only "." is taken for a special directory
IsSpecialDirOnlyDot(path) == path = <<".">>

\* path in [".", ".."]
IsSpecialDir(path) == path \in {<<".">>, <<".", ".">>}

\* a slip: the loop goes on after a hit, and the last directory wins
RECURSIVE SearchDirsLast(_, _, _, _)
SearchDirsLast(pl, fs, path, ds) ==
    IF ds = <<>> THEN None
    ELSE LET full_path == join(pl, ds[Len(ds)], path)
         IN  IF exists(pl, fs, full_path) THEN full_path
             ELSE SearchDirsLast(pl, fs, path, SubSeq(ds, 1, Len(ds) - 1))

\* the loop over dirs: the first directory under which path exists wins
RECURSIVE SearchDirs(_, _, _, _)
SearchDirs(pl, fs, path, ds) ==
    IF ds = <<>> THEN None
    ELSE LET full_path == join(pl, Head(ds), path)
         IN  IF exists(pl, fs, full_path) THEN full_path
             ELSE SearchDirs(pl, fs, path, Tail(ds))

search_path(pl, fs, path, ds) ==
    IF IsSpecialDir(path) THEN None
    ELSE IF /\ pl = "windows"
            /\ \/ StartsWith(path, <<"\\", "\\">>)
               \/ StartsWith(path, <<"/", "/">>)
    THEN None
    ELSE IF pl = "windows" /\ EndsWith(path, <<" ">>) THEN None
    ELSE IF isabs(pl, path)
    THEN (IF exists(pl, fs, path) THEN path ELSE None)
    ELSE SearchDirs(pl, fs, path, ds)

(***************************************************************************)
(* extract_path, without its cache.                                        *)
(***************************************************************************)
\* get_directories: the view's directories, then the global ones
get_directories(view_dirs, global_dirs) == view_dirs \o global_dirs

\* the inner loop: the longest path that exists among part, part + next, ...
RECURSIVE Grow(_, _, _, _, _, _)
Grow(pl, fs, ds, new_path, existing_path, rest) ==
    IF rest = <<>> THEN existing_path
    ELSE With(new_path \o Head(rest), LAMBDA longer :
         With(IF Truthy(search_path(pl, fs, longer, ds)) THEN longer
              ELSE existing_path, LAMBDA longest :
         Grow(pl, fs, ds, longer, longest, Tail(rest))))

\* path == "" or self.search_path(part, dirs)
IsBeginning(pl, fs, ds, path, part) ==
    path = <<>> \/ Truthy(search_path(pl, fs, part, ds))

\* a slip: the path of a blind start is not tested again
IsFoundUntested(pl, fs, ds, path, existing_path) == TRUE

\* path != "" or self.search_path(existing_path, dirs)
IsFound(pl, fs, ds, path, existing_path) ==
    path # <<>> \/ Truthy(search_path(pl, fs, existing_path, ds))

\* a slip: the cursor is not compared with the end of the path
CursorInsideUnchecked(len_before_path, len_existing_path, c) == TRUE

\* len_before_path + len_existing_path >= cur
CursorInside(len_before_path, len_existing_path, c) ==
    len_before_path + len_existing_path >= c

\* a slip: a path of the same length replaces the best one
IsLongerOrEqual(len_existing_path, path) == len_existing_path >= Len(path)

\* len_existing_path > len(path)
IsLonger(len_existing_path, path) == len_existing_path > Len(path)

NoBest == [path |-> <<>>, begin |-> 0, end |-> 0, found |-> <<>>]

\* one round of the loop over reversed(list(enumerate(before))), at the
\* part bef[k]; found lists the paths that came to "keep the longest path"
ScanPart(pl, fs, ds, bef, aft, c, b, k) ==
    IF ~IsBeginning(pl, fs, ds, b.path, bef[k]) THEN b
    ELSE With(Grow(pl, fs, ds, bef[k], bef[k], SubSeq(bef, k + 1, Len(bef)) \o aft),
              LAMBDA existing_path :
         LET len_before_path == Len(Concat(SubSeq(bef, 1, k - 1)))
             len_existing_path == Len(existing_path)
         IN  IF ~IsFound(pl, fs, ds, b.path, existing_path) THEN b
             ELSE IF ~CursorInside(len_before_path, len_existing_path, c) THEN b
             ELSE LET found == Append(b.found, [begin |-> len_before_path,
                                                path |-> existing_path])
                  IN  IF IsLonger(len_existing_path, b.path)
                      THEN [path |-> existing_path,
                            begin |-> len_before_path,
                            end |-> len_before_path + len_existing_path,
                            found |-> found]
                      ELSE [b EXCEPT !.found = found])

RECURSIVE Scan(_, _, _, _, _, _, _, _)
Scan(pl, fs, ds, bef, aft, c, b, k) ==
    IF k = 0 THEN b
    ELSE With(ScanPart(pl, fs, ds, bef, aft, c, b, k), LAMBDA kept :
         Scan(pl, fs, ds, bef, aft, c, kept, k - 1))

NoResult == [path |-> None, span |-> None]

\* no call yet: nothing was returned for any key, no view was gone through
NoCalls == [returned |-> <<>>, swept |-> 0, last |-> <<>>]

NoPatterns == [view |-> <<>>, global |-> <<>>]

\* a slip: the path found is returned as it stands in the text, without
\* the search that resolves it
ReturnedUnsearched(pl, fs, ds, b) ==
    IF b.path # <<>>
    THEN [path |-> b.path, span |-> <<b.begin, b.end>>]
    ELSE NoResult

\* the end of extract_path
Returned(pl, fs, ds, b) ==
    IF b.path # <<>>
    THEN [path |-> search_path(pl, fs, b.path, ds), span |-> <<b.begin, b.end>>]
    ELSE NoResult

\* the whole of extract_path
extract_path(pl, fs, t, c, ds) ==
    With(SplitBefore(pl, t, c), LAMBDA bef :
    With(SplitAfter(pl, t, c), LAMBDA aft :
    With(Scan(pl, fs, ds, bef, aft, c, NoBest, Len(bef)), LAMBDA found :
    Returned(pl, fs, ds, found))))

(***************************************************************************)
(* One call of extract_path that the cache does not answer, on any text,   *)
(* cursor, directories and files.                                          *)
(***************************************************************************)
Alphabet == {"a", ".", "/"}

Slashed(pl, p) == [k \in 1..Len(p) |-> IF p[k] = "/" THEN Sep(pl) ELSE p[k]]

FileUniverse(pl) ==
    {Slashed(pl, f) : f \in {<<"/", "a">>,
                             <<"/", "d", "/", "a">>,
                             <<"/", "d", "/", ".", "a">>,
                             <<"/", "e", "/", "a">>}}

ViewDirs(pl) == {<<>>, <<Slashed(pl, <<"/", "d">>)>>}
GlobalDirs(pl) == {<<>>, <<Slashed(pl, <<"/", "e">>)>>}

Init ==
    /\ platform \in Platforms
    /\ files \in SUBSET FileUniverse(platform)
    /\ text \in Texts(Alphabet, MaxLen)
    /\ cur \in 0..Len(text)
    /\ dirs \in {get_directories(v, g) : v \in ViewDirs(platform),
                                         g \in GlobalDirs(platform)}
    /\ pc = "start"
    /\ before = <<>>
    /\ after = <<>>
    /\ i = 0
    /\ best = NoBest
    /\ result = NoResult
    /\ cache = <<>>
    /\ called = NoCalls
    /\ settings = NoPatterns
    /\ paths = <<>>

Split ==
    /\ pc = "start"
    /\ before' = SplitBefore(platform, text, cur)
    /\ after' = SplitAfter(platform, text, cur)
    /\ i' = Len(before')
    /\ pc' = "scan"
    /\ UNCHANGED <<platform, files, text, cur, dirs, best, result, cache, called, settings, paths>>

Step ==
    /\ pc = "scan"
    /\ i > 0
    /\ best' = ScanPart(platform, files, dirs, before, after, cur, best, i)
    /\ i' = i - 1
    /\ UNCHANGED <<platform, files, text, cur, dirs, pc, before, after, result, cache, called, settings, paths>>

Return ==
    /\ pc = "scan"
    /\ i = 0
    /\ result' = Returned(platform, files, dirs, best)
    /\ pc' = "done"
    /\ UNCHANGED <<platform, files, text, cur, dirs, before, after, i, best, cache, called, settings, paths>>

Next == Split \/ Step \/ Return

Spec == Init /\ [][Next]_vars

(***************************************************************************)
(* Properties of one call.                                                 *)
(***************************************************************************)
AllParts == before \o after

\* the candidate path made of the parts a..b, and the offset it starts at
Candidate(a, b) == Concat(SubSeq(AllParts, a, b))
StartOf(a) == Len(Concat(SubSeq(AllParts, 1, a - 1)))

\* the runs of parts, begun at a part of before, that resolve through
\* search_path and reach the cursor
Covering ==
    {c \in (1..Len(before)) \X (1..Len(AllParts)) :
        /\ c[1] <= c[2]
        /\ Truthy(search_path(platform, files, Candidate(c[1], c[2]), dirs))
        /\ StartOf(c[1]) + Len(Candidate(c[1], c[2])) >= cur}

SpanLen == result.span[2] - result.span[1]

Matched == SubSeq(text, result.span[1] + 1, result.span[2])

Max(x, y) == IF x >= y THEN x ELSE y

\* C1: when two distinct candidate paths both resolve and both cover the
\* cursor, the returned span has the length of the longer one: the call
\* never returns a shorter candidate than one that resolves and covers.
C1_GreedyLongest ==
    pc = "done" =>
        \A c1 \in Covering : \A c2 \in Covering \ {c1} :
            /\ result.span # None
            /\ SpanLen >= Max(Len(Candidate(c1[1], c1[2])), Len(Candidate(c2[1], c2[2])))

\* C2: a returned span (begin, end) has begin <= cur <= end, begin being the
\* summed length of the parts of before ahead of the anchor and end being
\* begin plus the length of the matched text.
C2_SpanContainment ==
    (pc = "done" /\ result.path # None) =>
        /\ result.span[1] <= cur
        /\ cur <= result.span[2]
        /\ \E a \in 1..Len(before) :
              /\ result.span[1] = Len(Concat(SubSeq(before, 1, a - 1)))
              /\ result.span[2] = result.span[1] + Len(best.path)
        /\ Matched = best.path

C2_Witness ==
    /\ pc = "done"
    /\ result.path # None
    /\ 0 < result.span[1]
    /\ result.span[1] < cur
    /\ cur < result.span[2]

\* C6: the text a call matches is never exactly "." or "..", and the texts
\* "." and ".." with the cursor at their end give (None, None), also when
\* every directory holds "." and "..".
C6_DotExclusion ==
    pc = "done" =>
        /\ result.path # None => Matched \notin {<<".">>, <<".", ".">>}
        /\ (text \in {<<".">>, <<".", ".">>} /\ cur = Len(text)) => result = NoResult

C6_Witness ==
    /\ pc = "done"
    /\ text = <<".", ".">>
    /\ cur = 2
    /\ dirs # <<>>
    /\ \A k \in 1..Len(dirs) : exists(platform, files, join(platform, dirs[k], text))
    /\ result = NoResult

\* C9: a path found replaces the best one only when it is strictly longer,
\* so that of the paths found with the greatest length the call returns the
\* one whose anchor is closest to the cursor (the greatest start offset).
C9_TieBreak ==
    best.found # <<>> =>
        /\ \E k \in 1..Len(best.found) :
              best.found[k] = [begin |-> best.begin, path |-> best.path]
        /\ \A k \in 1..Len(best.found) :
              /\ Len(best.found[k].path) <= Len(best.path)
              /\ Len(best.found[k].path) = Len(best.path)
                    => best.found[k].begin <= best.begin
        /\ pc = "done" => result.span = <<best.begin, best.end>>

C9_Witness ==
    /\ pc = "done"
    /\ \E j, k \in 1..Len(best.found) :
          /\ best.found[j].begin < best.found[k].begin
          /\ Len(best.found[j].path) = Len(best.path)
          /\ Len(best.found[k].path) = Len(best.path)
          /\ result.span[1] = best.found[k].begin

\* C10: a call returns (None, None) exactly when no candidate path both
\* resolves and covers the cursor; the path and the span are None together;
\* and a returned path is search_path of the text of the returned span.
C10_FoundIffExists ==
    pc = "done" =>
        /\ result = NoResult <=> Covering = {}
        /\ result.path = None <=> result.span = None
        /\ result.path # None => result.path = search_path(platform, files, Matched, dirs)

\* no path is returned although a candidate resolves, which ends before
\* the cursor
C10_Witness ==
    /\ pc = "done"
    /\ result = NoResult
    /\ \E a \in 1..Len(before) : \E b \in a..Len(AllParts) :
          Truthy(search_path(platform, files, Candidate(a, b), dirs))

(***************************************************************************)
(* The tokenizer alone, under both expressions.                            *)
(***************************************************************************)
TokAlphabet == {"a", "4", ":", "/", "\\", ".", " "}

InitTok ==
    /\ platform \in Platforms
    /\ text \in Texts(TokAlphabet, MaxTokLen)
    /\ cur \in 0..Len(text)
    /\ files = {}
    /\ dirs = <<>>
    /\ pc = "start"
    /\ before = <<>>
    /\ after = <<>>
    /\ i = 0
    /\ best = NoBest
    /\ result = NoResult
    /\ cache = <<>>
    /\ called = NoCalls
    /\ settings = NoPatterns
    /\ paths = <<>>

NextTok == Split

SpecTok == InitTok /\ [][NextTok]_vars

\* C7: under both expressions the parts are non-empty, follow each other
\* from left to right without a gap or an overlap, and before followed by
\* after is the text again.
C7_RoundTrip ==
    pc = "scan" =>
        LET matches == finditer(platform, text, 1)
        IN  /\ Concat(before \o after) = text
            /\ Len(before) + Len(after) = Len(matches)
            /\ \A k \in 1..Len(matches) :
                  /\ AllParts[k] # <<>>
                  /\ AllParts[k] = matches[k].part
                  /\ matches[k].start = Len(Concat(SubSeq(AllParts, 1, k - 1)))
                  /\ SubSeq(text, matches[k].start + 1,
                            matches[k].start + Len(AllParts[k])) = AllParts[k]

\* a drive, then a part behind the cursor
C7_Witness ==
    /\ pc = "scan"
    /\ platform = "windows"
    /\ before = <<<<"a", ":">> \o <<"\\">>>>
    /\ after # <<>>
    /\ cur < Len(before[1])

(***************************************************************************)
(* search_path alone, and extract_path as a whole, on any path.            *)
(***************************************************************************)
SearchAlphabet == {"a", ".", "/", " "}

SearchFiles(pl) ==
    {Slashed(pl, f) : f \in {<<"/", "d", "/", "a">>,
                             <<"/", "e", "/", "a">>,
                             <<"/", "d", "/", "a", " ">>}}

InitSearch ==
    /\ platform \in Platforms
    /\ files \in SUBSET SearchFiles(platform)
    /\ text \in Texts(SearchAlphabet, MaxPathLen)
    /\ cur = 0
    /\ dirs \in {get_directories(v, g) : v \in ViewDirs(platform),
                                         g \in GlobalDirs(platform)}
    /\ pc = "start"
    /\ before = <<>>
    /\ after = <<>>
    /\ i = 0
    /\ best = NoBest
    /\ result = NoResult
    /\ cache = <<>>
    /\ called = NoCalls
    /\ settings = NoPatterns
    /\ paths = <<>>

Search ==
    /\ pc = "start"
    /\ result' = [path |-> search_path(platform, files, text, dirs), span |-> None]
    /\ pc' = "searched"
    /\ UNCHANGED <<platform, files, text, cur, dirs, before, after, i, best, cache, called, settings, paths>>

Extract ==
    /\ pc = "start"
    /\ \E c \in 0..Len(text) :
          /\ cur' = c
          /\ before' = SplitBefore(platform, text, c)
          /\ after' = SplitAfter(platform, text, c)
          /\ best' = Scan(platform, files, dirs, before', after', c, NoBest, Len(before'))
          /\ result' = Returned(platform, files, dirs, best')
    /\ i' = 0
    /\ pc' = "done"
    /\ UNCHANGED <<platform, files, text, dirs, cache, called, settings, paths>>

NextSearch == Search \/ Extract

SpecSearch == InitSearch /\ [][NextSearch]_vars

\* the directories of dirs, in order, under which path exists
Holding(path) ==
    SelectSeq(dirs, LAMBDA d : exists(platform, files, join(platform, d, path)))

FirstHolding(path) ==
    IF Holding(path) = <<>> THEN None ELSE join(platform, Holding(path)[1], path)

\* C5 as stated: for a relative path search_path returns the join with the
\* first directory, in the order of dirs, under which the path exists, and
\* None when there is none; extract_path returns this joined path.
C5_AsStated ==
    /\ (pc = "searched" /\ ~isabs(platform, text)) => result.path = FirstHolding(text)
    /\ (pc = "done" /\ result.path # None /\ ~isabs(platform, Matched))
          => result.path = FirstHolding(Matched)

\* the paths search_path turns down before it looks at the directories
TurnedDown(path) ==
    \/ path = <<".">>
    \/ path = <<".", ".">>
    \/ /\ platform = "windows"
       /\ \/ StartsWith(path, <<"\\", "\\">>)
          \/ StartsWith(path, <<"/", "/">>)
          \/ (path # <<>> /\ path[Len(path)] = " ")

\* C5, amended: the same, for the relative paths that search_path does not
\* turn down ("." and ".."; on Windows a path that starts with two
\* slashes or two backslashes or ends with a space), for which it returns
\* None.
C5_FirstDirectoryWins ==
    /\ (pc = "searched" /\ ~isabs(platform, text))
          => result.path = (IF TurnedDown(text) THEN None ELSE FirstHolding(text))
    /\ (pc = "done" /\ result.path # None /\ ~isabs(platform, Matched))
          => /\ ~TurnedDown(Matched)
             /\ result.path = FirstHolding(Matched)

\* a relative path that exists under both directories
C5_Witness ==
    /\ pc = "done"
    /\ result.path # None
    /\ ~isabs(platform, Matched)
    /\ Len(Holding(Matched)) = 2
    /\ result.path = join(platform, dirs[1], Matched)

(***************************************************************************)
(* re.match on the patterns of the settings.  A pattern is a sequence of   *)
(* items: a literal character, a named group of digits (?P<name>\d+), or   *)
(* an optional group (?:...)? of items.  Matches gives what the named      *)
(* groups hold in every way the pattern matches the text from index p on,  *)
(* in the order the backtracking matcher tries them: its first is          *)
(* the match re.match returns.                                             *)
(***************************************************************************)
Lit(c) == [kind |-> "lit", char |-> c, name |-> "", items |-> <<>>]
Num(name) == [kind |-> "num", char |-> "", name |-> name, items |-> <<>>]
Opt(items) == [kind |-> "opt", char |-> "", name |-> "", items |-> items]

RECURSIVE Matches(_, _, _, _)
RECURSIVE Greedy(_, _, _, _, _, _)
Matches(items, t, p, groups) ==
    IF items = <<>> THEN <<groups>>
    ELSE LET item == Head(items)
             rest == Tail(items)
         IN  CASE item.kind = "lit" ->
                     IF p <= Len(t) /\ t[p] = item.char
                     THEN Matches(rest, t, p + 1, groups)
                     ELSE <<>>
               [] item.kind = "num" ->
                     Greedy(rest, t, p, groups, item.name, Run(t, p, Digits))
               [] item.kind = "opt" ->
                     Matches(item.items \o rest, t, p, groups)
                         \o Matches(rest, t, p, groups)

\* \d+ takes the longest run of digits first and gives back one at a time
Greedy(rest, t, p, groups, name, n) ==
    IF n = 0 THEN <<>>
    ELSE Matches(rest, t, p + n, (name :> SubSeq(t, p, p + n - 1)) @@ groups)
             \o Greedy(rest, t, p, groups, name, n - 1)

RECURSIVE GroupNames(_)
GroupNames(items) ==
    IF items = <<>> THEN {}
    ELSE LET item == Head(items)
         IN  (CASE item.kind = "num" -> {item.name}
                [] item.kind = "opt" -> GroupNames(item.items)
                [] OTHER -> {})
             \cup GroupNames(Tail(items))

\* match.groupdict(): the groups that took no part in the match are None
groupdict(pattern, groups) ==
    [name \in GroupNames(pattern) |->
        IF name \in DOMAIN groups THEN groups[name] ELSE None]

NoMatch == [matched |-> FALSE, groups |-> <<>>]

re_match(pattern, t) ==
    LET all == Matches(pattern, t, 1, <<>>)
    IN  IF all = <<>> THEN NoMatch
        ELSE [matched |-> TRUE, groups |-> groupdict(pattern, Head(all))]

\* a slip: the global patterns are put before the ones of the view
get_patterns_global_first(view_patterns, global_patterns) ==
    global_patterns \o view_patterns

get_patterns(view_patterns, global_patterns) == view_patterns \o global_patterns

RECURSIVE match_patterns(_, _)
match_patterns(patterns, t) ==
    IF patterns = <<>> THEN <<>>
    ELSE LET match == re_match(Head(patterns), t)
         IN  IF match.matched THEN match.groups
             ELSE match_patterns(Tail(patterns), t)

(***************************************************************************)
(* functools.lru_cache() around extract_path: at most maxsize results, the *)
(* one used longest ago dropped when another is stored.  The cache is the  *)
(* sequence of its entries, the one used longest ago first.                *)
(***************************************************************************)
maxsize == 128

Cached(c, key) == \E k \in 1..Len(c) : c[k].key = key

Entry(c, key) == CHOOSE k \in 1..Len(c) : c[k].key = key

lru_hit(c, key) ==
    LET k == Entry(c, key)
    IN  [value |-> c[k].value,
         cache |-> SubSeq(c, 1, k - 1) \o SubSeq(c, k + 1, Len(c)) \o <<c[k]>>]

lru_miss(c, key, value) ==
    [value |-> value,
     cache |-> Append(IF Len(c) >= maxsize THEN Tail(c) ELSE c,
                      [key |-> key, value |-> value])]

\* a slip: the result is computed anew on every call
lru_cache_recomputing(pl, fs, c, t, cu, ds) ==
    LET key == <<t, cu, ds>>
        value == extract_path(pl, fs, t, cu, ds)
    IN  IF Cached(c, key)
        THEN [value |-> value, cache |-> lru_hit(c, key).cache]
        ELSE lru_miss(c, key, value)

lru_cache(pl, fs, c, t, cu, ds) ==
    LET key == <<t, cu, ds>>
    IN  IF Cached(c, key) THEN lru_hit(c, key)
        ELSE lru_miss(c, key, extract_path(pl, fs, t, cu, ds))

(***************************************************************************)
(* find_paths_at.  The view is one line that starts at offset 0, and no    *)
(* context is configured.  Next to the paths, the operator keeps what each *)
(* call of extract_path was: its key, what it returned, whether the cache  *)
(* held the key, and what the call before with this key returned.          *)
(***************************************************************************)
context == 100

Min(x, y) == IF x <= y THEN x ELSE y

NoneYet(c, known) == [paths |-> <<>>, cache |-> c, returned |-> known, calls |-> <<>>]

\* the paths, the cache and the calls after one more call of extract_path
Called(acc, patterns, t, key, call) ==
    LET path == call.value.path
        scope == call.value.span
    IN  [paths |-> IF Truthy(path)
                   THEN Append(acc.paths,
                               [path |-> path,
                                info |-> match_patterns(patterns, Drop(t, scope[2]))])
                   ELSE acc.paths,
         cache |-> call.cache,
         returned |-> (key :> call.value) @@ acc.returned,
         calls |-> Append(acc.calls,
                          [key |-> key,
                           value |-> call.value,
                           held |-> Cached(acc.cache, key),
                           earlier |-> IF key \in DOMAIN acc.returned
                                       THEN <<acc.returned[key]>>
                                       ELSE <<>>])]

RECURSIVE find_paths_at(_, _, _, _, _, _, _)
find_paths_at(pl, fs, patterns, ds, line, points, acc) ==
    IF points = <<>> THEN acc
    ELSE LET pt == Head(points)
             begin == Max(0, pt - context)
             end == Min(Len(line), pt + context)
             t == SubSeq(line, begin + 1, end)
             col == pt - begin
             key == <<t, col, ds>>
         IN  With(lru_cache(pl, fs, acc.cache, t, col, ds), LAMBDA call :
             With(Called(acc, patterns, t, key, call), LAMBDA next :
             find_paths_at(pl, fs, patterns, ds, line, Tail(points), next)))

(***************************************************************************)
(* One command whose calls of extract_path go through the cache, while     *)
(* paths are created and deleted between them.  The command goes through   *)
(* the views one after the other, a cursor at each position of the line,   *)
(* and may at any time come back to the first one.                         *)
(***************************************************************************)
CacheAlphabet == <<"a", "4">>
CacheDirs == <<<<"/", "d">>>>
CacheFiles == {<<"/", "d", "/", "a">>}

\* the lines, numbered from 1: the empty line, then the lines of one
\* character, of two, ...  The line j is the binary digits of j without
\* the first, the digit 0 for "a" and the digit 1 for "4"
RECURSIVE Line(_)
Line(j) ==
    IF j = 1 THEN <<>>
    ELSE Append(Line(j \div 2), CacheAlphabet[(j % 2) + 1])

View(line, points) == [line |-> line, points |-> points]

\* the view the command comes back to: the line "a", the cursor at its end
Again == View(<<"a">>, <<1>>)

\* the views gone through: first Again, then every line up to MaxLineLen
\* with a cursor at each of its positions (on the line of Again, at the
\* position left)
Views ==
    [j \in 1..(2 ^ (MaxLineLen + 1)) |->
        IF j = 1 THEN Again
        ELSE With(Line(j - 1), LAMBDA line :
                 IF line = Again.line THEN View(line, <<0>>)
                 ELSE View(line, [k \in 1..(Len(line) + 1) |-> k - 1]))]

InitCache ==
    /\ platform = "linux"
    /\ files = CacheFiles
    /\ text = <<>>
    /\ cur = 0
    /\ dirs = get_directories(CacheDirs, <<>>)
    /\ pc = "idle"
    /\ before = <<>>
    /\ after = <<>>
    /\ i = 0
    /\ best = NoBest
    /\ result = NoResult
    /\ cache = <<>>
    /\ called = NoCalls
    /\ settings = NoPatterns
    /\ paths = <<>>

FindPathsAt(view, swept) ==
    \E found \in {find_paths_at(platform, files,
                                 get_patterns(settings.view, settings.global),
                                 dirs, view.line, view.points,
                                 NoneYet(cache, called.returned))} :
        /\ text' = view.line
        /\ cur' = view.points[Len(view.points)]
        /\ paths' = found.paths
        /\ cache' = found.cache
        /\ called' = [returned |-> found.returned,
                      swept |-> swept,
                      last |-> found.calls]
        /\ result' = found.calls[Len(found.calls)].value
        /\ pc' = "found"
        /\ UNCHANGED <<platform, files, dirs, before, after, i, best, settings>>

FindNext ==
    /\ called.swept < Len(Views)
    /\ FindPathsAt(Views[called.swept + 1], called.swept + 1)

FindAgain ==
    /\ called.swept > 0
    /\ FindPathsAt(Again, called.swept)

Create ==
    /\ \E f \in CacheFiles \ files : files' = files \cup {f}
    /\ pc' = "idle"
    /\ UNCHANGED <<platform, text, cur, dirs, before, after, i, best, result,
                   cache, called, settings, paths>>

Delete ==
    /\ \E f \in files : files' = files \ {f}
    /\ pc' = "idle"
    /\ UNCHANGED <<platform, text, cur, dirs, before, after, i, best, result,
                   cache, called, settings, paths>>

NextCache == FindNext \/ FindAgain \/ Create \/ Delete

SpecCache == InitCache /\ [][NextCache]_vars

\* the calls of extract_path the last find_paths_at made
LastCalls == {called.last[k] : k \in 1..Len(called.last)}

\* C3 as it is stated: whenever a call of extract_path returns a path, that
\* path exists in the filesystem at the moment the call returns, whatever
\* was created or deleted between the calls.
C3_AsStated ==
    pc = "found" =>
        \A call \in LastCalls :
            call.value.path # None => exists(platform, files, call.value.path)

\* C3: whenever a call of extract_path that the cache does not answer
\* returns a path, that path exists in the filesystem at the moment the
\* call returns, whatever was created or deleted between the calls.
C3_FreshPathExists ==
    pc = "found" =>
        \A call \in LastCalls :
            (~call.held /\ call.value.path # None)
                => exists(platform, files, call.value.path)

\* a call the cache does not answer returns a path for a key whose call
\* before returned none: the path was created between the two calls
C3_Witness ==
    /\ pc = "found"
    /\ \E call \in LastCalls :
          /\ ~call.held
          /\ call.earlier = <<NoResult>>
          /\ call.value.path # None
          /\ exists(platform, files, call.value.path)

\* C4 as it is stated: once extract_path has returned a result for a key,
\* every later call with this key returns the same result, after any calls
\* with other keys and any changes of the filesystem.
C4_AsStated ==
    pc = "found" =>
        \A call \in LastCalls :
            call.earlier # <<>> => call.earlier = <<call.value>>

\* C4: a call with a key the cache still holds returns the result the call
\* before with this key returned, whatever has changed in the filesystem
\* since.
C4_SameWhileHeld ==
    pc = "found" =>
        \A call \in LastCalls :
            call.held => call.earlier = <<call.value>>

\* the cache answers with a path that has been deleted since
C4_Witness ==
    /\ pc = "found"
    /\ \E call \in LastCalls :
          /\ call.held
          /\ call.value.path # None
          /\ ~exists(platform, files, call.value.path)

(***************************************************************************)
(* find_paths_at on one line with one cursor, under any of the settings of *)
(* the patterns: the text after the path is matched for the line and the   *)
(* column.                                                                 *)
(***************************************************************************)
PatAlphabet == {"a", ":", "4"}

\* :(?P<line>\d+)(?::(?P<col>\d+))?
LineCol == <<Lit(":"), Num("line"), Opt(<<Lit(":"), Num("col")>>)>>

\* :(?P<col>\d+)
ColOnly == <<Lit(":"), Num("col")>>

PatternLists == {<<>>, <<LineCol>>, <<ColOnly>>}

InitPat ==
    /\ platform = "linux"
    /\ files = {Slashed(platform, <<"/", "d", "/", "a">>)}
    /\ text \in Texts(PatAlphabet, MaxPatLen)
    /\ cur = 0
    /\ dirs = get_directories(<<Slashed(platform, <<"/", "d">>)>>, <<>>)
    /\ pc = "idle"
    /\ before = <<>>
    /\ after = <<>>
    /\ i = 0
    /\ best = NoBest
    /\ result = NoResult
    /\ cache = <<>>
    /\ called = NoCalls
    /\ settings \in [view : PatternLists, global : PatternLists]
    /\ paths = <<>>

FindPaths ==
    /\ pc = "idle"
    /\ \E pt \in 0..Len(text) : FindPathsAt(View(text, <<pt>>), 0)

NextPat == FindPaths

SpecPat == InitPat /\ [][NextPat]_vars

\* the text that follows the span of the path
Trailing == Drop(text, result.span[2])

\* the patterns that match the text after the path, by their place in the
\* settings: the ones of the view, then the global ones
Matching ==
    LET patterns == settings.view \o settings.global
    IN  {k \in 1..Len(patterns) : re_match(patterns[k], Trailing).matched}

\* C8: the information that comes with a path is the named groups of the
\* first pattern, the ones of the view before the global ones, that
\* matches the text right after the span of the path from its start on; a
\* group that took no part in the match is None; the mapping is empty when
\* no pattern matches or none is configured.
C8_FirstPatternWins ==
    (pc = "found" /\ paths # <<>>) =>
        LET patterns == settings.view \o settings.global
            info == paths[1].info
        IN  /\ Matching = {} => DOMAIN info = {}
            /\ \A k \in Matching :
                  (\A j \in Matching : k <= j)
                      => info = re_match(patterns[k], Trailing).groups
            /\ DOMAIN info # {} => StartsWith(Trailing, <<":", "4">>)
            /\ (patterns # <<>> /\ patterns[1] = LineCol)
                  => /\ Trailing = <<":", "4">>
                          => info = [line |-> <<"4">>, col |-> None]
                     /\ Trailing = <<":", "4", ":", "4">>
                          => info = [line |-> <<"4">>, col |-> <<"4">>]
            /\ (patterns # <<>> /\ patterns[1] = ColOnly
                    /\ StartsWith(Trailing, <<":", "4">>))
                  => DOMAIN info = {"col"}

\* both the pattern of the view and the global one match the text after
\* the path; the groups are the ones of the pattern of the view, the
\* column None
C8_Witness ==
    /\ pc = "found"
    /\ paths # <<>>
    /\ settings = [view |-> <<LineCol>>, global |-> <<ColOnly>>]
    /\ Trailing = <<":", "4">>
    /\ Matching = {1, 2}
    /\ paths[1].info = [line |-> <<"4">>, col |-> None]

====
